---- MODULE Spec2Model ----
(***************************************************************************)
(* ChessMoveValidator (src/ChessMoveValidator.h): a board snapshot, the    *)
(* side to move, and is_legal_move, the verdict on one move string.        *)
(*                                                                         *)
(* A char is a one-character string; a std::string is a sequence of chars. *)
(* NUL is the char '\0', which std::string::operator[] yields at size().   *)
(***************************************************************************)
EXTENDS Integers, Sequences, FiniteSets, TLC

VARIABLES board_, white_to_move_, castling_rights, field_to_idx,
          pc, uci_move, result, accessed

vars == <<board_, white_to_move_, castling_rights, field_to_idx,
          pc, uci_move, result, accessed>>

\* ------------------------------------------------------------ <cctype>
NUL == "NUL"

UpperLetters == <<"A","B","C","D","E","F","G","H","I","J","K","L","M",
                  "N","O","P","Q","R","S","T","U","V","W","X","Y","Z">>
LowerLetters == <<"a","b","c","d","e","f","g","h","i","j","k","l","m",
                  "n","o","p","q","r","s","t","u","v","w","x","y","z">>

UpperSet == {UpperLetters[i] : i \in DOMAIN UpperLetters}
LowerSet == {LowerLetters[i] : i \in DOMAIN LowerLetters}

isupper(c) == c \in UpperSet
islower(c) == c \in LowerSet
tolower(c) == IF isupper(c)
              THEN LowerLetters[CHOOSE i \in DOMAIN UpperLetters : UpperLetters[i] = c]
              ELSE c

abs(n) == IF n < 0 THEN -n ELSE n

\* C's / and % truncate toward zero; TLA+'s \div and % round down.
cdiv(a, b) == IF a >= 0 THEN a \div b ELSE -((-a) \div b)
cmod(a, b) == a - b * cdiv(a, b)

\* ------------------------------------------------------------ the board
BoardSize == 64
BoardWidth == 8
Squares == 0 .. (BoardSize - 1)

\* One row of the table field_to_idx is constructed with.
TableRow(rank, first) ==
    (<<"a", rank>> :> first)     @@ (<<"b", rank>> :> first + 1) @@
    (<<"c", rank>> :> first + 2) @@ (<<"d", rank>> :> first + 3) @@
    (<<"e", rank>> :> first + 4) @@ (<<"f", rank>> :> first + 5) @@
    (<<"g", rank>> :> first + 6) @@ (<<"h", rank>> :> first + 7)

field_to_idx_init ==
    TableRow("8", 0)  @@ TableRow("7", 8)  @@ TableRow("6", 16) @@
    TableRow("5", 24) @@ TableRow("4", 32) @@ TableRow("3", 40) @@
    TableRow("2", 48) @@ TableRow("1", 56)

\* std::map::operator[]: a key the map lacks is inserted with the value 0.
MapSubscript(map, key) == IF key \in DOMAIN map THEN map ELSE map @@ (key :> 0)

\* A lookup that reports a missing key instead of inserting it.
square_to_index_find(map, sq) == IF sq \in DOMAIN map THEN map[sq] ELSE -1

\* square_to_index(sq), on the map as it is after the subscript.
square_to_index(map, sq) == MapSubscript(map, sq)[sq]

\* board_[i]. An index outside the array is undefined behaviour: the value
\* read is immaterial, because is_legal_move then returns either verdict.
BoardAt(i) == IF i \in Squares THEN board_[i] ELSE NUL

\* std::string::substr(pos, 2) of a string at least pos + 2 long.
substr2(s, pos) == SubSeq(s, pos + 1, pos + 2)

\* ------------------------------------------------------------ the checks
is_valid_piece(piece) ==
    piece \in {"K","Q","R","B","N","P","k","q","r","b","n","p"}

\* A turn check that forgets the side to move.
is_correct_turn_any(piece) == isupper(piece) \/ islower(piece)

is_correct_turn(piece) ==
    (isupper(piece) /\ white_to_move_) \/ (islower(piece) /\ ~white_to_move_)

\* The while loop of is_obstructed, entered at (x, y): <<obstructed, indices read>>.
RECURSIVE obstructed_loop(_, _, _, _, _)
obstructed_loop(x, y, to, step_x, step_y) ==
    IF (x # cmod(to, BoardWidth) \/ y # cdiv(to, BoardWidth))
       /\ (x >= 0 /\ x < BoardWidth /\ y >= 0 /\ y < BoardWidth)
    THEN IF BoardAt(y * BoardWidth + x) # "0"
         THEN <<TRUE, {y * BoardWidth + x}>>
         ELSE LET rest == obstructed_loop(x + step_x, y + step_y, to, step_x, step_y)
              IN  <<rest[1], {y * BoardWidth + x} \cup rest[2]>>
    ELSE <<FALSE, {}>>

obstructed_walk(from, to) ==
    LET dx == cmod(to, BoardWidth) - cmod(from, BoardWidth)
        dy == cdiv(to, BoardWidth) - cdiv(from, BoardWidth)
        step_x == IF dx # 0 THEN cdiv(dx, abs(dx)) ELSE 0
        step_y == IF dy # 0 THEN cdiv(dy, abs(dy)) ELSE 0
    IN  obstructed_loop(cmod(from, BoardWidth) + step_x,
                        cdiv(from, BoardWidth) + step_y, to, step_x, step_y)

\* An obstruction check that looks at the first square of the path only.
is_obstructed_first(from, to) ==
    LET walk == obstructed_walk(from, to)
    IN  walk[1] /\ Cardinality(walk[2]) = 1

is_obstructed(from, to) == obstructed_walk(from, to)[1]
is_obstructed_reads(from, to) == obstructed_walk(from, to)[2]

pawn_direction(piece) == IF isupper(piece) THEN -8 ELSE 8
pawn_start_row(piece) == IF isupper(piece) THEN 6 ELSE 1

is_valid_pawn_move(piece, from, to) ==
    LET direction == pawn_direction(piece) IN
    \/ to = from + direction /\ BoardAt(to) = "0"
    \/ /\ cdiv(from, BoardWidth) = pawn_start_row(piece)
       /\ to = from + 2 * direction
       /\ BoardAt(from + direction) = "0"
       /\ BoardAt(to) = "0"
    \/ /\ (to = from + direction - 1 \/ to = from + direction + 1)
       /\ BoardAt(to) # "0"
       /\ isupper(piece) # isupper(BoardAt(to))

\* The board indices is_valid_pawn_move reads, && and || short-circuiting.
is_valid_pawn_move_reads(piece, from, to) ==
    LET direction == pawn_direction(piece)
        one == to = from + direction
        two == cdiv(from, BoardWidth) = pawn_start_row(piece)
               /\ to = from + 2 * direction
        diag == to = from + direction - 1 \/ to = from + direction + 1
    IN  IF one /\ BoardAt(to) = "0" THEN {to}
        ELSE (IF one THEN {to} ELSE {})
             \cup (IF two THEN {from + direction} ELSE {})
             \cup (IF two /\ BoardAt(from + direction) = "0" THEN {to} ELSE {})
             \cup (IF ~(two /\ BoardAt(from + direction) = "0" /\ BoardAt(to) = "0")
                      /\ diag THEN {to} ELSE {})

is_valid_castling(piece, from, to) ==
    IF tolower(piece) # "k" THEN FALSE ELSE TRUE

is_valid_king_move(from, to) ==
    LET dx == abs(cmod(from, BoardWidth) - cmod(to, BoardWidth))
        dy == abs(cdiv(from, BoardWidth) - cdiv(to, BoardWidth))
    IN  IF dx <= 1 /\ dy <= 1 THEN TRUE
        ELSE is_valid_castling(BoardAt(from), from, to)

is_valid_king_move_reads(from, to) ==
    LET dx == abs(cmod(from, BoardWidth) - cmod(to, BoardWidth))
        dy == abs(cdiv(from, BoardWidth) - cdiv(to, BoardWidth))
    IN  IF dx <= 1 /\ dy <= 1 THEN {} ELSE {from}

is_valid_piece_movement(piece, from, to) ==
    LET dx == abs(cmod(from, BoardWidth) - cmod(to, BoardWidth))
        dy == abs(cdiv(from, BoardWidth) - cdiv(to, BoardWidth))
        kind == tolower(piece)
    IN  CASE kind = "p" -> is_valid_pawn_move(piece, from, to)
          [] kind = "n" -> (dx = 2 /\ dy = 1) \/ (dx = 1 /\ dy = 2)
          [] kind = "b" -> dx = dy /\ ~is_obstructed(from, to)
          [] kind = "r" -> (dx = 0 \/ dy = 0) /\ ~is_obstructed(from, to)
          [] kind = "q" -> (dx = dy \/ dx = 0 \/ dy = 0) /\ ~is_obstructed(from, to)
          [] kind = "k" -> is_valid_king_move(from, to)
          [] OTHER -> FALSE

is_valid_piece_movement_reads(piece, from, to) ==
    LET dx == abs(cmod(from, BoardWidth) - cmod(to, BoardWidth))
        dy == abs(cdiv(from, BoardWidth) - cdiv(to, BoardWidth))
        kind == tolower(piece)
    IN  CASE kind = "p" -> is_valid_pawn_move_reads(piece, from, to)
          [] kind = "b" -> IF dx = dy THEN is_obstructed_reads(from, to) ELSE {}
          [] kind = "r" -> IF dx = 0 \/ dy = 0 THEN is_obstructed_reads(from, to) ELSE {}
          [] kind = "q" -> IF dx = dy \/ dx = 0 \/ dy = 0
                           THEN is_obstructed_reads(from, to) ELSE {}
          [] kind = "k" -> is_valid_king_move_reads(from, to)
          [] OTHER -> {}

\* A destination check without the own-piece test.
is_valid_destination_any(piece, from, to, target) ==
    is_valid_piece_movement(piece, from, to)

is_valid_destination(piece, from, to, target) ==
    IF target # "0" /\ ((isupper(piece) /\ isupper(target))
                        \/ (islower(piece) /\ islower(target)))
    THEN FALSE
    ELSE is_valid_piece_movement(piece, from, to)

is_valid_destination_reads(piece, from, to, target) ==
    IF target # "0" /\ ((isupper(piece) /\ isupper(target))
                        \/ (islower(piece) /\ islower(target)))
    THEN {}
    ELSE is_valid_piece_movement_reads(piece, from, to)

would_cause_check(from, to) == FALSE

\* The body of is_legal_move after the two subscripts: the verdict.
legal_verdict(from, to) ==
    LET piece == BoardAt(from)
        target == BoardAt(to)
    IN  IF piece = "0" \/ ~is_valid_piece(piece) THEN FALSE
        ELSE IF ~is_correct_turn(piece) THEN FALSE
        ELSE IF ~is_valid_destination(piece, from, to, target) THEN FALSE
        ELSE IF would_cause_check(from, to) THEN FALSE
        ELSE TRUE

\* ... and every index board_ is subscripted with on the way.
legal_reads(from, to) ==
    LET piece == BoardAt(from)
        target == BoardAt(to)
    IN  {from, to} \cup
        (IF piece = "0" \/ ~is_valid_piece(piece) THEN {}
         ELSE IF ~is_correct_turn(piece) THEN {}
         ELSE is_valid_destination_reads(piece, from, to, target))

\* ------------------------------------------------------------ inputs
Pieces == {"K","Q","R","B","N","P","k","q","r","b","n","p"}

\* A board written as its eight rows, a8..h8 first, as the snapshot lists it.
BoardOfRows(rows) ==
    [i \in Squares |-> rows[(i \div BoardWidth) + 1][(i % BoardWidth) + 1]]

StartBoard == BoardOfRows(<<
    <<"r","n","b","q","k","b","n","r">>,
    <<"p","p","p","p","p","p","p","p">>,
    <<"0","0","0","0","0","0","0","0">>,
    <<"0","0","0","0","0","0","0","0">>,
    <<"0","0","0","0","0","0","0","0">>,
    <<"0","0","0","0","0","0","0","0">>,
    <<"P","P","P","P","P","P","P","P">>,
    <<"R","N","B","Q","K","B","N","R">> >>)

\* An open position: pawns on both edge files, a pawn about to promote,
\* an uncastled white king, and pieces on the lines between them.
OpenBoard == BoardOfRows(<<
    <<"0","0","0","0","0","0","k","0">>,
    <<"0","0","0","0","P","0","0","p">>,
    <<"0","0","n","0","0","0","0","0">>,
    <<"R","0","0","0","0","0","0","0">>,
    <<"0","0","0","q","0","0","0","r">>,
    <<"0","p","0","0","0","0","0","0">>,
    <<"P","0","0","0","0","0","0","0">>,
    <<"0","0","0","0","K","0","0","R">> >>)

BaseBoards == {StartBoard, OpenBoard}

\* The squares a further piece is put on, and what is put there.
FocusSquares == {0, 12, 15, 35, 48, 60}
FocusChars == Pieces \cup {"x"}

Boards == BaseBoards \cup
          {[OpenBoard EXCEPT ![s] = c] : s \in FocusSquares, c \in FocusChars}

\* The snapshot updateFEN is given: 64 strings and the side to move.
FenOf(b, side) == [i \in 0 .. BoardSize |->
                     IF i = BoardSize THEN side ELSE <<b[i]>>]

\* A snapshot whose strings are not all one char long: parseFEN keeps the
\* first char of each, and an empty string gives NUL.
RaggedFen == [FenOf(OpenBoard, <<"W">>) EXCEPT ![0] = <<>>, ![35] = <<"q","x">>]

Snapshots == {FenOf(b, side) : b \in Boards, side \in {<<"w">>, <<"b">>}}
             \cup {RaggedFen}

FileChars == <<"a","b","c","d","e","f","g","h">>
RankChars == <<"8","7","6","5","4","3","2","1">>

\* The name of square i, as the table of field_to_idx spells it.
SquareName(i) == <<FileChars[(i % BoardWidth) + 1], RankChars[(i \div BoardWidth) + 1]>>

MoveOrigins == FocusSquares \cup {24, 63}
PlainMoves == {SquareName(f) \o SquareName(t) : f \in MoveOrigins, t \in Squares}
              \cup {SquareName(f) \o SquareName(t) :
                      f \in {1, 36, 52, 62}, t \in {18, 28, 36, 44, 45}}

\* Moves with a fifth char, a promotion letter or not.
PromotionMoves ==
    {SquareName(f) \o SquareName(t) \o <<c>> :
        f \in {12, 15, 48, 60}, t \in {4, 7, 40, 62, 39}, c \in {"q", "N", "x"}}

\* Strings that are no move: too short, too long, squares that are no square.
BadSquares == {<<"e","9">>}
MaxLen == 6
Padding(n) == [i \in 1 .. n |-> "q"]
MalformedMoves ==
    {SubSeq(SquareName(52) \o SquareName(36), 1, n) : n \in 0 .. 3}
    \cup {SquareName(f) \o SquareName(t) \o Padding(n) :
            f \in {48, 60}, t \in {40, 62}, n \in 2 .. (MaxLen - 4)}
    \cup {bad \o SquareName(t) : bad \in BadSquares, t \in {0, 7, 8, 39, 56, 60}}
    \cup {SquareName(f) \o bad : bad \in BadSquares, f \in {8, 12, 35, 48, 60}}
    \cup {b1 \o b2 : b1 \in BadSquares, b2 \in BadSquares}

MoveStrings == PlainMoves \cup PromotionMoves \cup MalformedMoves

\* castling_rights is declared and never assigned, and nothing reads it: its
\* value is indeterminate. The model starts it with no flag set or every flag set.
CastlingRightsValues == {[i \in 0 .. 3 |-> v] : v \in BOOLEAN}

\* ------------------------------------------------------------ operations
FirstChar(s) == IF Len(s) = 0 THEN NUL ELSE s[1]

\* parseFEN(fen): the new board_ and white_to_move_.
parseFEN_board(fen) == [i \in Squares |-> FirstChar(fen[i])]
parseFEN_white(fen) == fen[BoardSize] = <<"w">>

\* The constructor: the table, and updateFEN(fen).
Init ==
    /\ \E fen \in Snapshots :
          /\ board_ = parseFEN_board(fen)
          /\ white_to_move_ = parseFEN_white(fen)
    /\ castling_rights \in CastlingRightsValues
    /\ field_to_idx = field_to_idx_init
    /\ pc = "ready"
    /\ uci_move = <<>>
    /\ result = FALSE
    /\ accessed = {}

updateFEN(fen) ==
    /\ pc = "ready"
    /\ board_' = parseFEN_board(fen)
    /\ white_to_move_' = parseFEN_white(fen)
    /\ UNCHANGED <<castling_rights, field_to_idx, pc, uci_move, result, accessed>>

\* is_legal_move(m), whole: the two subscripts of field_to_idx, the reads of
\* board_, the verdict.
is_legal_move(m) ==
    /\ pc = "ready"
    /\ uci_move' = m
    /\ pc' = "returned"
    /\ IF Len(m) < 4
       THEN /\ result' = FALSE
            /\ accessed' = {}
            /\ UNCHANGED field_to_idx
       ELSE LET from_sq == substr2(m, 0)
                to_sq == substr2(m, 2)
                \* assigned and never used
                promotion == IF Len(m) = 5 THEN m[5] ELSE NUL
                from == square_to_index(field_to_idx, from_sq)
                map1 == MapSubscript(field_to_idx, from_sq)
                to == square_to_index(map1, to_sq)
                map2 == MapSubscript(map1, to_sq)
                reads == legal_reads(from, to)
            IN  /\ field_to_idx' = map2
                /\ accessed' = reads
                /\ result' \in IF reads \subseteq Squares
                               THEN {legal_verdict(from, to)}
                               ELSE BOOLEAN
    /\ UNCHANGED <<board_, white_to_move_, castling_rights>>

\* The caller takes the verdict; the call's argument and locals are gone.
Return ==
    /\ pc = "returned"
    /\ pc' = "ready"
    /\ uci_move' = <<>>
    /\ result' = FALSE
    /\ accessed' = {}
    /\ UNCHANGED <<board_, white_to_move_, castling_rights, field_to_idx>>

Next ==
    \/ \E fen \in Snapshots : updateFEN(fen)
    \/ \E m \in MoveStrings : is_legal_move(m)
    \/ Return

Spec == Init /\ [][Next]_vars

TypeOK ==
    /\ board_ \in [Squares -> STRING]
    /\ white_to_move_ \in BOOLEAN
    /\ pc \in {"ready", "returned"}
    /\ result \in BOOLEAN


\* ------------------------------------------------------------ vocabulary
Returned == pc = "returned"

\* A move string as the contract of the parser words it.
IsSquareName(s) ==
    /\ Len(s) = 2
    /\ s[1] \in {"a","b","c","d","e","f","g","h"}
    /\ s[2] \in {"1","2","3","4","5","6","7","8"}

PromotionLetters == {"q","r","b","n","Q","R","B","N"}

NamesSquares(m) ==
    /\ Len(m) >= 4
    /\ IsSquareName(SubSeq(m, 1, 2))
    /\ IsSquareName(SubSeq(m, 3, 4))

WellFormed(m) ==
    /\ Len(m) \in {4, 5}
    /\ NamesSquares(m)
    /\ (Len(m) = 5 => m[5] \in PromotionLetters)

\* The square a name denotes, by file and rank: a8 is 0 and h1 is 63.
FileOf(c) == CHOOSE i \in 0 .. 7 : FileChars[i + 1] = c
RankOf(c) == CHOOSE d \in 1 .. 8 : RankChars[9 - d] = c
SquareOf(s) == (8 - RankOf(s[2])) * 8 + FileOf(s[1])

Origin == SquareOf(SubSeq(uci_move, 1, 2))
Destination == SquareOf(SubSeq(uci_move, 3, 4))

Col(s) == s % 8
Row(s) == s \div 8
FileDist(s, t) == abs(Col(s) - Col(t))
RankDist(s, t) == abs(Row(s) - Row(t))

WhitePieces == {"K","Q","R","B","N","P"}
BlackPieces == {"k","q","r","b","n","p"}
ColorOf(c) == IF c \in WhitePieces THEN "white"
              ELSE IF c \in BlackPieces THEN "black" ELSE "none"
Opponent(color) == IF color = "white" THEN "black" ELSE "white"
SideToMove == IF white_to_move_ THEN "white" ELSE "black"

\* The squares strictly between s and t, when they share a rank, a file or
\* a diagonal; no square otherwise.
Aligned(s, t) ==
    s # t /\ (FileDist(s, t) = 0 \/ RankDist(s, t) = 0 \/ FileDist(s, t) = RankDist(s, t))

Min(a, b) == IF a < b THEN a ELSE b
Max(a, b) == IF a < b THEN b ELSE a

Between(s, t) ==
    IF ~Aligned(s, t) THEN {}
    ELSE {u \in Squares \ {s, t} :
            /\ Row(u) \in Min(Row(s), Row(t)) .. Max(Row(s), Row(t))
            /\ Col(u) \in Min(Col(s), Col(t)) .. Max(Col(s), Col(t))
            /\ (Row(u) - Row(s)) * (Col(t) - Col(s))
                  = (Col(u) - Col(s)) * (Row(t) - Row(s))}

ClearIn(b, s, t) == \A u \in Between(s, t) : b[u] = "0"

\* The piece on s of board b threatens t (a pawn threatens diagonally,
\* whatever stands there).
Attacks(b, s, t) ==
    LET dx == FileDist(s, t)
        dy == RankDist(s, t)
    IN  CASE b[s] \in {"N","n"} -> (dx = 1 /\ dy = 2) \/ (dx = 2 /\ dy = 1)
          [] b[s] \in {"B","b"} -> dx = dy /\ dx > 0 /\ ClearIn(b, s, t)
          [] b[s] \in {"R","r"} -> (dx = 0) # (dy = 0) /\ ClearIn(b, s, t)
          [] b[s] \in {"Q","q"} -> Aligned(s, t) /\ ClearIn(b, s, t)
          [] b[s] \in {"K","k"} -> s # t /\ dx <= 1 /\ dy <= 1
          [] b[s] = "P" -> dx = 1 /\ Row(t) = Row(s) - 1
          [] b[s] = "p" -> dx = 1 /\ Row(t) = Row(s) + 1
          [] OTHER -> FALSE

Attacked(b, t, color) ==
    \E s \in Squares : ColorOf(b[s]) = color /\ Attacks(b, s, t)

\* The position after the move: piece moved, origin cleared, capture by overwrite.
AfterMove(b, f, t) == [u \in Squares |-> IF u = t THEN b[f] ELSE IF u = f THEN "0" ELSE b[u]]

KingAttacked(b, color) ==
    \E k \in Squares :
        /\ b[k] = (IF color = "white" THEN "K" ELSE "k")
        /\ Attacked(b, k, Opponent(color))

\* ------------------------------------------------------------ claims

\* C1: a move string that is not well-formed (length other than 4 or 5, a
\* square that is no file letter and rank digit, a fifth char that is no
\* promotion letter) is rejected, and before any board square is read.
C1_MalformedRejected ==
    (Returned /\ ~WellFormed(uci_move)) => (~result /\ accessed = {})

\* C2: every index is_legal_move subscripts board_ with lies in [0,64),
\* for every move string, well-formed or not.
C2_ReadsInRange == accessed \subseteq Squares

\* A string that names no square has been given, and the path of a sliding
\* piece was walked for it.
C2_Witness ==
    /\ Returned
    /\ ~NamesSquares(uci_move)
    /\ Len(uci_move) >= 4
    /\ Cardinality(accessed) >= 4

\* C3: after an accepted move is applied to a copy of the position, the
\* moving side's king is not attacked by any opposing piece.
C3_KingSafeAfterAcceptedMove ==
    (Returned /\ result /\ NamesSquares(uci_move)) =>
        ~KingAttacked(AfterMove(board_, Origin, Destination), ColorOf(board_[Origin]))

\* The castling move f -> t is legal: two files along the home rank, the
\* right still held, the king not attacked, the squares up to the rook
\* empty, and neither the square passed nor the destination attacked.
CastlingLegal(f, t) ==
    LET color == ColorOf(board_[f])
        kingside == Col(t) > Col(f)
        right == (IF color = "white" THEN 0 ELSE 2) + (IF kingside THEN 0 ELSE 1)
        rook == Row(f) * 8 + (IF kingside THEN 7 ELSE 0)
        transit == (f + t) \div 2
    IN  /\ Row(f) = (IF color = "white" THEN 7 ELSE 0)
        /\ Row(t) = Row(f)
        /\ FileDist(f, t) = 2
        /\ castling_rights[right]
        /\ ~Attacked(board_, f, Opponent(color))
        /\ ClearIn(board_, f, rook)
        /\ ~Attacked(board_, transit, Opponent(color))
        /\ ~Attacked(board_, t, Opponent(color))

\* C4: a king move of more than one file or more than one rank is accepted
\* only if it is a legal castling move.
C4_DistantKingMoveIsCastling ==
    (/\ Returned
     /\ result
     /\ NamesSquares(uci_move)
     /\ board_[Origin] \in {"K", "k"}
     /\ (FileDist(Origin, Destination) > 1 \/ RankDist(Origin, Destination) > 1))
    => CastlingLegal(Origin, Destination)

\* C5: a move whose origin piece and destination piece have the same color
\* (origin = destination included) is rejected, whatever the piece.
C5_NoOwnCapture ==
    (/\ Returned
     /\ NamesSquares(uci_move)
     /\ ColorOf(board_[Origin]) # "none"
     /\ ColorOf(board_[Origin]) = ColorOf(board_[Destination]))
    => ~result

\* The side to move asks to take its own piece with a move whose shape and
\* path are otherwise valid.
C5_Witness ==
    /\ Returned
    /\ NamesSquares(uci_move)
    /\ Origin # Destination
    /\ ColorOf(board_[Origin]) = SideToMove
    /\ ColorOf(board_[Origin]) = ColorOf(board_[Destination])
    /\ is_valid_piece_movement(board_[Origin], Origin, Destination)
    /\ ~result

\* C6: a move whose origin square is empty or holds no piece code, or whose
\* origin piece is not of the side to move, is rejected.
C6_OriginAndTurn ==
    (/\ Returned
     /\ NamesSquares(uci_move)
     /\ (board_[Origin] \notin Pieces \/ ColorOf(board_[Origin]) # SideToMove))
    => ~result

\* e7e5 on the starting position with white to move has been rejected.
C6_Witness ==
    /\ Returned
    /\ board_ = StartBoard
    /\ white_to_move_
    /\ uci_move = <<"e","7","e","5">>
    /\ ~result

\* A pawn of either color arrives on its far rank.
PawnToFarRank(f, t) ==
    \/ board_[f] = "P" /\ Row(t) = 0
    \/ board_[f] = "p" /\ Row(t) = 7

\* C7: an accepted move carries a promotion letter exactly when it is a
\* pawn reaching its far rank.
C7_PromotionPresence ==
    (/\ Returned
     /\ result
     /\ Len(uci_move) \in {4, 5}
     /\ NamesSquares(uci_move))
    => ((Len(uci_move) = 5) <=> PawnToFarRank(Origin, Destination))

\* C8: a call of is_legal_move leaves the board, the side to move and the
\* square-name-to-index mapping as they were.
C8_CallChangesNothing ==
    [][(pc = "ready" /\ pc' = "returned") =>
          (/\ board_' = board_
           /\ white_to_move_' = white_to_move_
           /\ field_to_idx' = field_to_idx)]_vars

\* The shape of a sliding move, by piece kind.
SliderShape(piece, f, t) ==
    LET dx == FileDist(f, t)
        dy == RankDist(f, t)
    IN  CASE piece \in {"B","b"} -> dx = dy
          [] piece \in {"R","r"} -> (dx = 0) # (dy = 0)
          [] piece \in {"Q","q"} -> dx = dy \/ (dx = 0) # (dy = 0)

SliderCase ==
    /\ Returned
    /\ NamesSquares(uci_move)
    /\ board_[Origin] \in {"B","R","Q","b","r","q"}
    /\ ColorOf(board_[Origin]) = SideToMove
    /\ ColorOf(board_[Destination]) # ColorOf(board_[Origin])

\* C9: a bishop, rook or queen of the side to move, its destination not of
\* its own color, passes the movement check iff the shape is valid and every
\* square strictly between is empty; the move is accepted only then.
C9_SlidingMoves ==
    SliderCase =>
        LET ok == SliderShape(board_[Origin], Origin, Destination)
                  /\ ClearIn(board_, Origin, Destination)
        IN  /\ is_valid_piece_movement(board_[Origin], Origin, Destination) <=> ok
            /\ result => ok

\* A sliding move of valid shape has been rejected for a piece standing
\* further along its path than the first square.
C9_Witness ==
    /\ SliderCase
    /\ SliderShape(board_[Origin], Origin, Destination)
    /\ \E u \in Between(Origin, Destination) :
          /\ board_[u] # "0"
          /\ FileDist(Origin, u) + RankDist(Origin, u) >= 2
          /\ \A v \in Between(Origin, u) : board_[v] = "0"
    /\ ~result

\* The pawn rule: one step forward onto an empty square, two from the
\* starting rank over an empty square onto an empty square, or one step
\* forward and one file aside onto an opposing piece.
PawnRule(f, t) ==
    LET color == ColorOf(board_[f])
        fwd == IF color = "white" THEN -1 ELSE 1
        start == IF color = "white" THEN 6 ELSE 1
    IN  \/ Col(t) = Col(f) /\ Row(t) = Row(f) + fwd /\ board_[t] = "0"
        \/ /\ Col(t) = Col(f)
           /\ Row(f) = start
           /\ Row(t) = Row(f) + 2 * fwd
           /\ board_[f + 8 * fwd] = "0"
           /\ board_[t] = "0"
        \/ /\ Row(t) = Row(f) + fwd
           /\ FileDist(f, t) = 1
           /\ ColorOf(board_[t]) = Opponent(color)

\* C10: a pawn of the side to move passes the pawn-movement check iff the
\* move is one of the three of the pawn rule.
C10_PawnMoves ==
    (/\ Returned
     /\ NamesSquares(uci_move)
     /\ board_[Origin] \in {"P", "p"}
     /\ ColorOf(board_[Origin]) = SideToMove)
    => (is_valid_pawn_move(board_[Origin], Origin, Destination)
           <=> PawnRule(Origin, Destination))

====
